---- MODULE Spec2Model ----
(***************************************************************************)
(* Offline tax-content synchronisation and loading of the AvaTax Python    *)
(* SDK: src/src/client.py (call-scoped directories) and                    *)
(* src/src/client_resiliency.py (session-bound directories).               *)
(*                                                                         *)
(* Text is a sequence of tokens: one token per character, except that the  *)
(* literal file names "retailTaxContent.json" and "zipRates.json" are one  *)
(* token each.                                                             *)
(***************************************************************************)
EXTENDS Integers, Sequences, FiniteSets, TLC

\* ------------------------------------------------------------------ bounds
MaxLoc == 2
MaxDay == 1
MaxQueries == 2
MaxOps == 3
MaxSyncs == 2
BufLen == 4
MaxRows == 3
MaxFields == 2

\* ------------------------------------------------------- program constants
MinRows == 100
MaxCount == 10

\* ----------------------------------------------------------- Python values
PyNone == [t |-> "none", s |-> <<>>, n |-> 0]

PyStr(s) == [t |-> "str", s |-> s, n |-> 0]

PyInt(n) == [t |-> "int", s |-> <<>>, n |-> n]

\* isinstance(v, str_type): str_type admits text and None (add_credentials
\* and __init__ pass their None defaults through the same test).
IsStrType(v) == v.t \in {"str", "none"}

\* isinstance(v, int)
IsInt(v) == v.t = "int"

\* Python truthiness, as used by "if x" and "not x"
Truthy(v) ==
    CASE v.t = "none" -> FALSE
      [] v.t = "str" -> v.s # <<>>
      [] v.t = "int" -> v.n # 0
      [] OTHER -> TRUE

Digit(d) == <<"0", "1", "2", "3", "4", "5", "6", "7", "8", "9">>[d + 1]

RECURSIVE StrNat(_)
StrNat(n) == IF n < 10 THEN <<Digit(n)>> ELSE StrNat(n \div 10) \o <<Digit(n % 10)>>

\* str(n) for an integer n
Str(n) == IF n < 0 THEN <<"-">> \o StrNat(-n) ELSE StrNat(n)

DigitVal(c) == CHOOSE d \in 0..9 : Digit(d) = c

IsDigit(c) == \E d \in 0..9 : Digit(d) = c

RECURSIVE IntOf(_)
\* int(s) for a text of decimal digits
IntOf(s) == IF Len(s) = 1 THEN DigitVal(s[1])
            ELSE 10 * IntOf(SubSeq(s, 1, Len(s) - 1)) + DigitVal(s[Len(s)])

\* int(s) succeeds
IsIntText(s) == s # <<>> /\ \A i \in 1..Len(s) : IsDigit(s[i])

\* ------------------------------------------------------------------- JSON
\* A tax-content document is a JSON array of one-digit numbers; a Python
\* list is the sequence of its elements.
RECURSIVE JoinWith(_, _)
JoinWith(parts, sep) ==
    IF parts = <<>> THEN <<>>
    ELSE IF Len(parts) = 1 THEN parts[1]
    ELSE parts[1] \o sep \o JoinWith(Tail(parts), sep)

\* The body build_tax_content_file_for_location returns for a document:
\* compact JSON, no blanks.
WireJson(doc) ==
    <<"[">> \o JoinWith([i \in 1..Len(doc) |-> <<Digit(doc[i])>>], <<",">>) \o <<"]">>

\* json.dump(list, file): the text written, items separated by ", "
JsonDump(doc) ==
    <<"[">> \o JoinWith([i \in 1..Len(doc) |-> <<Digit(doc[i])>>], <<",", " ">>) \o <<"]">>

\* json.loads / json.load of an array text: succeeds on "[", items separated
\* by "," with optional blanks, "]"
IsJsonList(text) ==
    /\ Len(text) >= 2
    /\ text[1] = "[" /\ text[Len(text)] = "]"
    /\ LET body == SelectSeq(SubSeq(text, 2, Len(text) - 1), LAMBDA c : c # " ")
       IN  /\ \A i \in 1..Len(body) : IF i % 2 = 1 THEN IsDigit(body[i]) ELSE body[i] = ","
           /\ (body = <<>> \/ Len(body) % 2 = 1)

JsonLoads(text) ==
    LET body == SelectSeq(SubSeq(text, 2, Len(text) - 1), LAMBDA c : IsDigit(c))
    IN  [i \in 1..Len(body) |-> DigitVal(body[i])]

\* A Python dict is the sequence of its <<key, value>> items in insertion
\* order.  json.dump of a dict writes "{", one member per item, "}"; each
\* brace is a one-element token and each member a two-element token.
JsonDumpDict(d) == <<(<<"{">>)>> \o d \o <<(<<"}">>)>>

IsJsonDict(text) ==
    /\ Len(text) >= 2
    /\ text[1] = <<"{">> /\ text[Len(text)] = <<"}">>
    /\ \A i \in 2..(Len(text) - 1) : Len(text[i]) = 2

\* the dict that assigning the items in order builds: a key stands where it
\* was first assigned and holds the value last assigned to it
DictOfItems(items) ==
    LET n == Len(items)
        numbered == [i \in 1..n |-> <<i, items[i][1]>>]
        firsts == SelectSeq(numbered,
                            LAMBDA e : \A j \in 1..(e[1] - 1) : items[j][1] # e[2])
        LastOf(key) == CHOOSE i \in 1..n :
                           items[i][1] = key /\ \A j \in (i + 1)..n : items[j][1] # key
    IN  [k \in 1..Len(firsts) |-> <<firsts[k][2], items[LastOf(firsts[k][2])][2]>>]

\* json.load of an object text: a repeated key keeps its last value
JsonLoadDict(text) == DictOfItems(SubSeq(text, 2, Len(text) - 1))

\* -------------------------------------------------------------------- CSV
RECURSIVE SplitOn(_, _)
\* s.split(sep) for a one-token separator
SplitOn(s, sep) ==
    IF \A i \in 1..Len(s) : s[i] # sep THEN <<s>>
    ELSE LET k == CHOOSE i \in 1..Len(s) : s[i] = sep /\ \A j \in 1..(i - 1) : s[j] # sep
         IN  <<SubSeq(s, 1, k - 1)>> \o SplitOn(SubSeq(s, k + 1, Len(s)), sep)

\* one row of csv.reader(lines, delimiter=','): a blank line reads as []
CsvRow(line) == IF line = <<>> THEN <<>> ELSE SplitOn(line, ",")

\* list(csv.reader(content.splitlines(), delimiter=','))
CsvReader(lines) == [i \in 1..Len(lines) |-> CsvRow(lines[i])]

\* _zipct_helper needs z.pop(0) of every row
ZipctHelperFails(zip_list) == \E i \in 1..Len(zip_list) : zip_list[i] = <<>>

\* a _zipct_helper that keeps the first row of each code
ZipctHelperFirstWins(rows) ==
    LET firsts == SelectSeq([i \in 1..Len(rows) |-> <<i, rows[i][1]>>],
                            LAMBDA e : \A j \in 1..(e[1] - 1) : rows[j][1] # e[2])
    IN  [k \in 1..Len(firsts) |-> <<firsts[k][2], Tail(rows[firsts[k][1]])>>]

\* _zipct_helper(zip_list): for z in zip_list: code = z.pop(0);
\* zip_dict[code] = z
ZipctHelper(zip_list) ==
    DictOfItems([i \in 1..Len(zip_list) |-> <<zip_list[i][1], Tail(zip_list[i])>>])

\* ------------------------------------------------------------------ paths
RetailName == <<"retailTaxContent.json">>

ZipName == <<"zipRates.json">>

\* datetime.datetime.today().strftime('%Y%m%d') on day `day` of the run
TodayTag(day) == Str(20230110 + day)

\* datetime.datetime.today().strftime('%Y-%m-%d')
TodayArg(day) == <<"2", "0", "2", "3", "-", "0", "1", "-", "1", Digit(day)>>

\* os.path.join(path, file_name) on a POSIX host; file_name is relative
OsPathJoin(path, file_name) ==
    IF path = <<>> THEN file_name
    ELSE IF path[Len(path)] = "/" THEN path \o file_name
    ELSE path \o <<"/">> \o file_name

\* the file name _path_joiner forms
JoinerFileName(day, file_name, loc_id) ==
    IF Truthy(loc_id) THEN Str(loc_id.n) \o <<"_">> \o file_name
    ELSE TodayTag(day) \o <<"_">> \o file_name

\* _path_joiner(path, file_name, loc_id) with self._linux = linux
PathJoiner(linux, day, path, file_name, loc_id) ==
    IF linux THEN OsPathJoin(path, JoinerFileName(day, file_name, loc_id))
    ELSE path \o <<"\\">> \o JoinerFileName(day, file_name, loc_id)

\* the tokens the host takes as directory separators
Seps(linux) == IF linux THEN {"/"} ELSE {"/", "\\"}

\* the host's separator
Sep(linux) == IF linux THEN "/" ELSE "\\"

RECURSIVE Collapse(_, _)
Collapse(q, sep) ==
    IF Len(q) < 2 THEN q
    ELSE IF q[1] = sep /\ q[2] = sep THEN Collapse(Tail(q), sep)
    ELSE <<q[1]>> \o Collapse(Tail(q), sep)

\* The file a path names: runs of separators count as one separator (and on
\* a non-POSIX host "/" separates like "\").
NormPath(linux, p) ==
    Collapse([i \in 1..Len(p) |-> IF p[i] \in Seps(linux) THEN Sep(linux) ELSE p[i]],
             Sep(linux))

\* ------------------------------------------------------------- file system
\* The files are a function from the path of each existing file to its text.
IsFile(f, linux, path) == NormPath(linux, path) \in DOMAIN f

ReadFile(f, linux, path) == f[NormPath(linux, path)]

\* a write that leaves the disk as it was
WriteNothing(f, linux, path, text) == f

\* with open(path, 'w+') as file: json.dump(obj, file)
WriteFile(f, linux, path, text) ==
    [p \in DOMAIN f \cup {NormPath(linux, path)} |->
        IF p = NormPath(linux, path) THEN text ELSE f[p]]

\* the last path component
BaseName(linux, p) ==
    LET cut == {i \in 1..Len(p) : p[i] = Sep(linux)}
        k == IF cut = {} THEN 0 ELSE CHOOSE i \in cut : \A j \in cut : j <= i
    IN  SubSeq(p, k + 1, Len(p))

RECURSIVE StripSeps(_, _)
StripSeps(linux, p) ==
    IF p # <<>> /\ p[Len(p)] \in Seps(linux) THEN StripSeps(linux, SubSeq(p, 1, Len(p) - 1)) ELSE p

\* glob.glob(dir + '/*zipRates.json'): the existing files of directory dir
\* whose name ends in zipRates.json, each as directory + separator + name
GlobZip(f, linux, dir) ==
    LET prefix == NormPath(linux, dir \o <<"/">>)
        names == {BaseName(linux, p) : p \in {q \in DOMAIN f :
                      /\ Len(q) > Len(prefix)
                      /\ SubSeq(q, 1, Len(prefix)) = prefix
                      /\ q[Len(q)] = ZipName[1]
                      /\ BaseName(linux, q) = SubSeq(q, Len(prefix) + 1, Len(q))}}
        head == IF StripSeps(linux, dir) = <<>> /\ prefix = <<Sep(linux)>>
                THEN <<>> ELSE StripSeps(linux, dir)
    IN  {head \o <<Sep(linux)>> \o n : n \in names}

\* every listing order of a set of paths
Orderings(S) ==
    {o \in [1..Cardinality(S) -> S] : \A i, j \in 1..Cardinality(S) : i # j => o[i] # o[j]}

\* ------------------------------------------------------ the remote service
Company(id, isDefault) == [id |-> id, isDefault |-> isDefault]

\* responses of query_companies: ok = FALSE is a body without 'value'; the
\* first listing flags no company as default
Listings ==
    { [ok |-> FALSE, value |-> <<>>],
      [ok |-> TRUE, value |-> <<Company(1, FALSE)>>],
      [ok |-> TRUE, value |-> <<Company(1, FALSE), Company(2, TRUE)>>],
      [ok |-> TRUE, value |-> <<Company(3, TRUE), Company(2, TRUE)>>] }

\* documents build_tax_content_file_for_location may return
Docs == {<<1>>, <<2, 1>>}

\* A ZIP-rate download is the lines of its body: n lines "<zip>,<rate>", or the
\* one-line notice sent while the table is being built (n = 0).
Response(n, rate) == [n |-> n, rate |-> rate]

Lines(r) ==
    IF r.n = 0 THEN << <<"b", "u", "i", "l", "d">> >>
    ELSE [i \in 1..r.n |-> Str(i) \o <<",", r.rate>>]

ShortResponses == {Response(MinRows - 1, "b")}

FullResponses == {Response(MinRows, "b")}

Responses == ShortResponses \cup FullResponses

\* ------------------------------------------------------------ the session
NoComp == [some |-> FALSE, v |-> Company(0, FALSE)]

SomeComp(c) == [some |-> TRUE, v |-> c]

NoObj == [some |-> FALSE, v |-> <<>>]

SomeObj(v) == [some |-> TRUE, v |-> v]

\* ------------------------------------------------ construction, credentials
Upper == <<"A", "B", "C", "D", "E", "F", "G", "H", "I", "J", "K", "L", "M",
           "N", "O", "P", "Q", "R", "S", "T", "U", "V", "W", "X", "Y", "Z">>

LowerCase == <<"a", "b", "c", "d", "e", "f", "g", "h", "i", "j", "k", "l", "m",
               "n", "o", "p", "q", "r", "s", "t", "u", "v", "w", "x", "y", "z">>

\* a lower() that leaves the text as it is
LowerKeepsCase(s) == s

\* s.lower()
Lower(s) ==
    [i \in 1..Len(s) |->
        IF \E k \in 1..26 : Upper[k] = s[i]
        THEN LowerCase[CHOOSE k \in 1..26 : Upper[k] = s[i]]
        ELSE s[i]]

\* s[:n]
Prefix(s, n) == SubSeq(s, 1, IF Len(s) < n THEN Len(s) ELSE n)

Sandbox == <<"s", "a", "n", "d", "b", "o", "x">>

Https == <<"h", "t", "t", "p", "s", ":", "/", "/">>

Http == <<"h", "t", "t", "p", ":", "/", "/">>

\* 'https://rest.avatax.com'
ProductionUrl == <<"https://rest.avatax.com">>

\* 'https://sandbox-rest.avatax.com'
SandboxUrl == <<"https://sandbox-rest.avatax.com">>

\* self.base_url after __init__ with an environment that passed the type test
BaseUrl(a_environment) ==
    IF ~Truthy(a_environment) THEN ProductionUrl
    ELSE IF Lower(a_environment.s) = Sandbox THEN SandboxUrl
    ELSE IF Prefix(a_environment.s, 8) = Https \/ Prefix(a_environment.s, 7) = Http
    THEN a_environment.s
    ELSE ProductionUrl

\* '{}'.format(v)
Format(v) ==
    CASE v.t = "none" -> <<"None">>
      [] v.t = "str" -> v.s
      [] OTHER -> Str(v.n)

\* '{}; {}; Python SDK; 18.5; {};'.format(app_name, app_version, machine_name)
ClientId(app_name, app_version, machine_name) ==
    Format(app_name) \o <<"; ">> \o Format(app_version) \o <<"; Python SDK; 18.5; ">>
        \o Format(machine_name) \o <<";">>

\* {'X-Avalara-Client': self.client_id}
HeaderOf(client_id) == [k \in {"X-Avalara-Client"} |-> client_id]

\* header[key] = value
HeaderSet(header, key, value) ==
    [k \in DOMAIN header \cup {key} |-> IF k = key THEN value ELSE header[k]]

\* HTTPBasicAuth(username, password)
HTTPBasicAuth(username, password) == [username |-> username, password |-> password]

\* self.auth = None
NoAuth == [some |-> FALSE, v |-> HTTPBasicAuth(PyNone, PyNone)]

\* if username and not password
IsBearerCall(username, password) == Truthy(username) /\ ~Truthy(password)

VARIABLES
    variant,         \* "client": client.py, "resiliency": client_resiliency.py
    linux,           \* self._linux
    today,           \* the day datetime.today() reports
    content_dir,     \* self._content_dir
    zip_dir,         \* self._zip_dir
    loc_id,          \* self._loc_id
    content_cache,   \* self._content_cache
    ziprates_cache,  \* self._ziprates_cache
    default_comp,    \* self._default_comp
    fs,              \* the files on disk
    pc,              \* where a running sync_offline_content stands
    sync_zip_dir,    \* the directory the running sync writes ZIP rates to
    zipct_list,      \* zipct_list of the running sync
    count,           \* count of the running sync
    last,            \* the last operation and the error it raised
    calls,           \* what the running or last sync did
    pre,             \* caches and files when the running or last sync began
    n_query,         \* query_companies calls of the session (up to MaxQueries)
    ops,             \* operations called on the session (up to MaxOps)
    syncs,           \* sync_offline_content calls among them (up to MaxSyncs)
    writers,         \* the snapshot writes of two syncs running side by side
    environment,     \* the environment argument the client was constructed with
    base_url,        \* self.base_url
    auth,            \* self.auth
    client_header,   \* self.client_header
    zip_list,        \* zip_list of a _zipct_helper call
    zip_dict         \* zip_dict of a _zipct_helper call

vars == <<variant, linux, today, content_dir, zip_dir, loc_id, content_cache,
          ziprates_cache, default_comp, fs, pc, sync_zip_dir, zipct_list, count,
          last, calls, pre, n_query, ops, syncs, writers, environment, base_url, auth,
          client_header, zip_list, zip_dict>>

\* what the offline operations never touch
aux == <<environment, base_url, auth, client_header, zip_list, zip_dict>>

session == <<content_dir, zip_dir, loc_id, content_cache, ziprates_cache, default_comp>>

NoFiles == [p \in {} |-> <<>>]

NoCalls == [queried |-> FALSE, fetched |-> FALSE, company |-> 0, doc |-> <<>>,
            content_path |-> <<>>, got |-> Response(0, "a"), wrote_zip |-> FALSE]

\* a sync that is not writing
NoWriter == [pc |-> "none", text |-> <<>>, pos |-> 0]

NoWriters == [w \in 1..2 |-> NoWriter]

NoPre == [content_cache |-> NoObj, ziprates_cache |-> NoObj, fs |-> NoFiles]

Result(op, err) == [op |-> op, err |-> err]

\* AvataxClient.__init__: the offline fields
InitSession ==
    /\ linux \in BOOLEAN
    /\ content_cache = NoObj
    /\ ziprates_cache = NoObj
    /\ default_comp = NoComp

\* AvataxClient.__init__() with its defaults: endpoint, auth, header
InitClient ==
    /\ environment = PyNone
    /\ base_url = BaseUrl(PyNone)
    /\ auth = NoAuth
    /\ client_header = HeaderOf(ClientId(PyNone, PyNone, PyNone))

\* the session's bound directories and location start unset
InitBindings ==
    /\ content_dir = PyNone
    /\ zip_dir = PyNone
    /\ loc_id = PyNone

\* The disk as an earlier session may have left it: empty, or with the
\* content snapshot of location 1 and the ZIP-rate snapshot of day 0 in
\* directory d.
OldFiles(lx) ==
    WriteFile(WriteFile(NoFiles, lx, PathJoiner(lx, 0, <<"d">>, RetailName, PyInt(1)),
                        JsonDump(<<1>>)),
              lx, PathJoiner(lx, 0, <<"d">>, ZipName, PyNone),
              JsonDumpDict(ZipctHelper(CsvReader(Lines(Response(MinRows + 1, "a"))))))

Init ==
    /\ variant \in {"client", "resiliency"}
    /\ InitSession
    /\ InitClient
    /\ zip_list = <<>>
    /\ zip_dict = <<>>
    /\ InitBindings
    /\ today \in 1..MaxDay
    /\ fs \in {NoFiles, OldFiles(linux)}
    /\ pc = "idle"
    /\ sync_zip_dir = PyNone
    /\ zipct_list = <<>>
    /\ count = 0
    /\ last = Result("init", "none")
    /\ calls = NoCalls
    /\ pre = NoPre
    /\ n_query = 0
    /\ ops = 0
    /\ syncs = 0
    /\ writers = NoWriters

\* --------------------------------------------------------- default company
\* a _get_default_comp that asks the service on every call
NeedsQueryAlways(dc) == TRUE

\* _get_default_comp asks the service unless a default company is cached
NeedsQuery(dc) == ~dc.some

\* the first company of the listing flagged isDefault, if any
FirstDefault(companies) ==
    LET hits == {i \in 1..Len(companies) : companies[i].isDefault}
    IN  IF hits = {} THEN NoComp
        ELSE SomeComp(companies[CHOOSE i \in hits : \A j \in hits : i <= j])

\* self._default_comp after _get_default_comp() with the listing the service
\* would return (left alone when response.json()['value'] raises)
DefaultCompAfter(dc, listing) ==
    IF ~NeedsQuery(dc) THEN dc
    ELSE IF ~listing.ok THEN dc
    ELSE IF FirstDefault(listing.value).some THEN FirstDefault(listing.value)
    ELSE dc

\* the company whose content the resiliency sync fetches
MixinUsesDefault(company_id) == ~Truthy(company_id)

\* the company whose content the client.py sync fetches: always the default
ClientUsesDefault(company_id) == TRUE

\* a content step that keeps the fetched document in memory
ContentCacheFilledBySync(cache, content_json) == SomeObj(content_json)

\* self._content_cache after the content step of a sync: not assigned
ContentCacheAfterSync(cache, content_json) == cache

\* self._ziprates_cache after the ZIP-rate step of a sync: not assigned
ZipCacheAfterSync(cache, zipct_dict) == cache

\* The content step: resolve the company, fetch the document, write it.
ContentStep(use_default, company_id, dir, loc, listing, doc) ==
    LET queried == use_default /\ NeedsQuery(default_comp)
        dc == IF use_default THEN DefaultCompAfter(default_comp, listing) ELSE default_comp
        err1 == IF queried /\ ~listing.ok THEN "KeyError"
                ELSE IF use_default /\ ~dc.some THEN "TypeError"
                ELSE "none"
        company == IF use_default THEN dc.v.id ELSE company_id.n
        content_json == JsonLoads(WireJson(doc))
        err == IF err1 # "none" THEN err1
               ELSE IF dir.t = "none" THEN "TypeError"
               ELSE "none"
        content_path == IF err = "none" THEN PathJoiner(linux, today, dir.s, RetailName, loc)
                        ELSE <<>>
    IN  [err |-> err,
         dc |-> dc,
         queried |-> queried,
         fetched |-> err1 = "none",
         company |-> IF err1 = "none" THEN company ELSE 0,
         doc |-> IF err1 = "none" THEN content_json ELSE <<>>,
         content_path |-> content_path,
         cache |-> IF err = "none" THEN ContentCacheAfterSync(content_cache, content_json)
                   ELSE content_cache,
         fs |-> IF err = "none" THEN WriteFile(fs, linux, content_path, JsonDump(content_json))
                ELSE fs]

SkipContent ==
    [err |-> "none", dc |-> default_comp, queried |-> FALSE, fetched |-> FALSE,
     company |-> 0, doc |-> <<>>, content_path |-> <<>>, cache |-> content_cache, fs |-> fs]

Bump(n) == IF n < MaxQueries THEN n + 1 ELSE n

\* what the sync does once its arguments are accepted, up to the ZIP-rate loop
AfterContent(r, do_zip, zdir) ==
    /\ default_comp' = r.dc
    /\ content_cache' = r.cache
    /\ fs' = r.fs
    /\ n_query' = IF r.queried THEN Bump(n_query) ELSE n_query
    /\ calls' = [NoCalls EXCEPT !.queried = r.queried, !.fetched = r.fetched,
                                !.company = r.company, !.doc = r.doc,
                                !.content_path = r.content_path]
    /\ zipct_list' = <<>>
    /\ count' = 0
    /\ IF r.err # "none"
       THEN pc' = "idle" /\ last' = Result("sync", r.err) /\ sync_zip_dir' = PyNone
       ELSE IF do_zip
       THEN pc' = "zip_loop" /\ last' = Result("sync", "running") /\ sync_zip_dir' = zdir
       ELSE pc' = "idle" /\ last' = Result("sync", "none") /\ sync_zip_dir' = PyNone

\* the sync raises before it does anything
Rejected(err) ==
    /\ pc' = "idle"
    /\ last' = Result("sync", err)
    /\ calls' = NoCalls
    /\ UNCHANGED <<default_comp, content_cache, fs, n_query, zipct_list, count, sync_zip_dir>>

\* the date argument is refused
BadDate(date) == date.t # "none" /\ ~IsStrType(date)

\* client_resiliency.py: sync_offline_content(company_id, date), up to the loop
SyncOfflineContentMixin(company_id, date) ==
    /\ pc = "idle"
    /\ ops < MaxOps
    /\ ops' = ops + 1
    /\ syncs < MaxSyncs
    /\ syncs' = syncs + 1
    /\ variant = "resiliency"
    /\ pre' = [content_cache |-> content_cache, ziprates_cache |-> ziprates_cache, fs |-> fs]
    /\ UNCHANGED <<aux, writers, variant, linux, today, content_dir, zip_dir, loc_id, ziprates_cache>>
    /\ IF ~Truthy(content_dir) /\ ~Truthy(zip_dir) THEN Rejected("ValueError")
       ELSE IF BadDate(date) THEN Rejected("ValueError")
       ELSE IF Truthy(content_dir) /\ Truthy(loc_id)
       THEN \E listing \in Listings, doc \in Docs :
                AfterContent(ContentStep(MixinUsesDefault(company_id), company_id,
                                         content_dir, loc_id, listing, doc),
                             Truthy(zip_dir), zip_dir)
       ELSE AfterContent(SkipContent, Truthy(zip_dir), zip_dir)

\* client.py: sync_offline_content(content_dir, zip_dir, loc_id, company_id,
\* date), up to the loop
SyncOfflineContentClient(a_content_dir, a_zip_dir, a_loc_id, company_id, date) ==
    /\ pc = "idle"
    /\ ops < MaxOps
    /\ ops' = ops + 1
    /\ syncs < MaxSyncs
    /\ syncs' = syncs + 1
    /\ variant = "client"
    /\ pre' = [content_cache |-> content_cache, ziprates_cache |-> ziprates_cache, fs |-> fs]
    /\ UNCHANGED <<aux, writers, variant, linux, today, content_dir, zip_dir, loc_id, ziprates_cache>>
    /\ IF ~(IsStrType(a_content_dir) /\ IsStrType(a_zip_dir)) THEN Rejected("ValueError")
       ELSE IF BadDate(date) THEN Rejected("ValueError")
       ELSE \E listing \in Listings, doc \in Docs :
                AfterContent(ContentStep(ClientUsesDefault(company_id), company_id,
                                         a_content_dir, a_loc_id, listing, doc),
                             TRUE, a_zip_dir)

\* ----------------------------------------------------- the ZIP-rate loop
\* a loop that takes any table with a row
TableReadyAny(list) == Len(list) >= 1

\* a loop that wants more than 100 rows
TableReadyAbove(list) == Len(list) > MinRows

\* while len(zipct_list) < 100
TableReady(list) == Len(list) >= MinRows

\* if count > 10: raise
LoopExhausted(c) == c > MaxCount

\* the parsed rows of each response
Parsed == [r \in Responses |-> CsvReader(Lines(r))]

\* one pass of the loop body: a download, the parse, the count check
ZipLoop ==
    /\ pc = "zip_loop"
    /\ \E r \in Responses :
        LET list == Parsed[r]
            c == count + 1
        IN  /\ calls' = [calls EXCEPT !.got = r]
            /\ IF LoopExhausted(c)
               THEN /\ pc' = "idle"
                    /\ last' = Result("sync", "Exception")
                    /\ zipct_list' = <<>>
                    /\ count' = 0
                    /\ sync_zip_dir' = PyNone
               ELSE /\ pc' = IF TableReady(list) THEN "zip_write" ELSE "zip_loop"
                    /\ zipct_list' = list
                    /\ count' = c
                    /\ UNCHANGED <<last, sync_zip_dir>>
    /\ UNCHANGED <<aux, writers, variant, linux, today, session, fs, pre, n_query, ops, syncs>>

\* after the loop: _zipct_helper, _path_joiner, the write, return self
ZipWrite ==
    /\ pc = "zip_write"
    /\ LET err == IF ZipctHelperFails(zipct_list) THEN "IndexError"
                  ELSE IF sync_zip_dir.t = "none" THEN "TypeError"
                  ELSE "none"
       IN  /\ last' = Result("sync", err)
           /\ IF err = "none"
              THEN /\ fs' = WriteFile(fs, linux,
                                      PathJoiner(linux, today, sync_zip_dir.s, ZipName, PyNone),
                                      JsonDumpDict(ZipctHelper(zipct_list)))
                   /\ ziprates_cache' = ZipCacheAfterSync(ziprates_cache, ZipctHelper(zipct_list))
                   /\ calls' = [calls EXCEPT !.wrote_zip = TRUE]
              ELSE UNCHANGED <<fs, ziprates_cache, calls>>
    /\ pc' = "idle"
    /\ zipct_list' = <<>>
    /\ count' = 0
    /\ sync_zip_dir' = PyNone
    /\ UNCHANGED <<aux, writers, variant, linux, today, content_dir, zip_dir, loc_id, content_cache,
                   default_comp, pre, n_query, ops, syncs>>

\* -------------------------------------------------- with_retail_tax_content
\* content_dir + str(loc_id) + '_retailTaxContent.json'
RetailLocFile(dir, loc) == dir \o Str(loc) \o <<"_">> \o RetailName

\* with_retail_tax_content on a directory without the file: client.py raises
\* IndexError, client_resiliency.py prints and returns
RetailMissing(v) == IF v = "client" THEN "IndexError" ELSE "none"

\* an operation other than sync ran: nothing of a sync is left to observe
Forget ==
    /\ calls' = NoCalls
    /\ pre' = NoPre
    /\ UNCHANGED <<aux, writers, variant, linux, today, default_comp, fs, pc, sync_zip_dir,
                   zipct_list, count, n_query, syncs>>

WithRetailTaxContent(a_dir, a_loc) ==
    /\ pc = "idle"
    /\ ops < MaxOps
    /\ ops' = ops + 1
    /\ Forget
    /\ UNCHANGED <<zip_dir, ziprates_cache>>
    /\ IF ~IsStrType(a_dir) \/ ~IsInt(a_loc)
       THEN /\ last' = Result("with_retail", "ValueError")
            /\ UNCHANGED <<content_dir, loc_id, content_cache>>
       ELSE /\ content_dir' = IF variant = "resiliency" THEN a_dir ELSE content_dir
            /\ loc_id' = IF variant = "resiliency" THEN a_loc ELSE loc_id
            /\ IF a_dir.t = "none"
               THEN /\ last' = Result("with_retail", "TypeError")
                    /\ UNCHANGED content_cache
               ELSE IF ~IsFile(fs, linux, RetailLocFile(a_dir.s, a_loc.n))
               THEN /\ last' = Result("with_retail", RetailMissing(variant))
                    /\ UNCHANGED content_cache
               ELSE IF ~IsJsonList(ReadFile(fs, linux, RetailLocFile(a_dir.s, a_loc.n)))
               THEN /\ last' = Result("with_retail", "ValueError")
                    /\ UNCHANGED content_cache
               ELSE /\ last' = Result("with_retail", "none")
                    /\ content_cache' =
                           SomeObj(JsonLoads(ReadFile(fs, linux, RetailLocFile(a_dir.s, a_loc.n))))

\* ------------------------------------------------- with_zipcode_tax_content
\* f.split('/')[-1].split('_'): the pieces of the file name
NamePieces(f) == SplitOn(SplitOn(f, "/")[Len(SplitOn(f, "/"))], "_")

\* 'zipRates' in os.path.splitext(f)[0]
HasMarker(f) == \E i \in 1..Len(f) : f[i] = ZipName[1]

\* what reading the date tag of f raises
TagError(f) ==
    IF Len(NamePieces(f)) < 2 THEN "IndexError"
    ELSE IF ~IsIntText(NamePieces(f)[Len(NamePieces(f)) - 1]) THEN "ValueError"
    ELSE "none"

\* int(f.split('/')[-1].split('_')[-2])
StoredDate(f) == IntOf(NamePieces(f)[Len(NamePieces(f)) - 1])

\* the files whose tag the loop reads: all of them in client.py, those with
\* the marker in client_resiliency.py
Dated(v, all_files) ==
    SelectSeq(all_files, LAMBDA f : v = "client" \/ HasMarker(f))

\* _get_most_recent_file raises this, or "none"
MostRecentError(v, all_files) ==
    LET dated == Dated(v, all_files)
        bad == {i \in 1..Len(dated) : TagError(dated[i]) # "none"}
    IN  IF v = "resiliency" /\ all_files = <<>> THEN "ImportError"
        ELSE IF bad # {} THEN TagError(dated[CHOOSE i \in bad : \A j \in bad : i <= j])
        ELSE IF dated = <<>> THEN (IF v = "client" THEN "ValueError" ELSE "ImportError")
        ELSE "none"

\* d = max(files_by_date); idx = files_by_date.index(d); all_files[idx]
MostRecentFile(v, all_files) ==
    LET dated == Dated(v, all_files)
        files_by_date == [i \in 1..Len(dated) |-> StoredDate(dated[i])]
        d == CHOOSE x \in {files_by_date[i] : i \in 1..Len(dated)} :
                 \A i \in 1..Len(dated) : files_by_date[i] <= x
        idx == CHOOSE i \in 1..Len(dated) :
                   files_by_date[i] = d /\ \A j \in 1..(i - 1) : files_by_date[j] # d
    IN  all_files[idx]

WithZipcodeTaxContent(a_dir) ==
    /\ pc = "idle"
    /\ ops < MaxOps
    /\ ops' = ops + 1
    /\ Forget
    /\ UNCHANGED <<content_dir, loc_id, content_cache>>
    /\ IF ~IsStrType(a_dir)
       THEN /\ last' = Result("with_zipcode", "ValueError")
            /\ UNCHANGED <<zip_dir, ziprates_cache>>
       ELSE /\ zip_dir' = IF variant = "resiliency" THEN a_dir ELSE zip_dir
            /\ IF a_dir.t = "none"
               THEN /\ last' = Result("with_zipcode", "TypeError")
                    /\ UNCHANGED ziprates_cache
               ELSE \E all_files \in Orderings(GlobZip(fs, linux, a_dir.s)) :
                    LET err == MostRecentError(variant, all_files)
                    IN  IF err = "ImportError"
                        THEN /\ last' = Result("with_zipcode", "none")
                             /\ UNCHANGED ziprates_cache
                        ELSE IF err # "none"
                        THEN /\ last' = Result("with_zipcode", err)
                             /\ UNCHANGED ziprates_cache
                        ELSE IF variant = "client"
                                /\ ~IsFile(fs, linux, MostRecentFile(variant, all_files))
                        THEN /\ last' = Result("with_zipcode", "IndexError")
                             /\ UNCHANGED ziprates_cache
                        ELSE IF ~IsJsonDict(ReadFile(fs, linux, MostRecentFile(variant, all_files)))
                        THEN /\ last' = Result("with_zipcode", "ValueError")
                             /\ UNCHANGED ziprates_cache
                        ELSE /\ last' = Result("with_zipcode", "none")
                             /\ ziprates_cache' =
                                    SomeObj(JsonLoadDict(ReadFile(fs, linux,
                                                MostRecentFile(variant, all_files))))

\* ---------------------------------------------------------- the arguments
DirArgs == {PyNone, PyInt(5), PyStr(<<>>), PyStr(<<"d">>), PyStr(<<"d", Sep(linux)>>)}

LocArgs == {PyNone} \cup {PyInt(n) : n \in 0..MaxLoc}

CompanyArgs == {PyNone, PyInt(9)}

DateArgs == {PyNone, PyInt(5), PyStr(TodayArg(1))}

\* the arguments of client.py's sync: the accepted shapes, and one call for
\* each argument the validation refuses
ClientSyncArgs ==
    [content_dir : {PyStr(<<"d">>), PyStr(<<"d", Sep(linux)>>)}, zip_dir : {PyStr(<<"d">>)},
     loc_id : {PyInt(0), PyInt(1)}, company_id : CompanyArgs, date : {PyNone}]
    \cup
    [content_dir : {PyNone, PyInt(5)}, zip_dir : {PyNone}, loc_id : {PyInt(1)},
     company_id : {PyNone}, date : {PyNone}]
    \cup
    [content_dir : {PyStr(<<"d">>)}, zip_dir : {PyStr(<<"d">>), PyInt(5)},
     loc_id : {PyInt(1)}, company_id : {PyNone}, date : DateArgs]

Next ==
    \/ \E company_id \in CompanyArgs, date \in DateArgs :
           SyncOfflineContentMixin(company_id, date)
    \/ \E a \in ClientSyncArgs :
           SyncOfflineContentClient(a.content_dir, a.zip_dir, a.loc_id, a.company_id, a.date)
    \/ ZipLoop
    \/ ZipWrite
    \/ \E a_dir \in DirArgs, a_loc \in LocArgs : WithRetailTaxContent(a_dir, a_loc)
    \/ \E a_dir \in DirArgs : WithZipcodeTaxContent(a_dir)

Spec == Init /\ [][Next]_vars

\* ------------------------------------------- two syncs side by side
\* Two syncs of a session bound to directory d and location 1 run their
\* content step at the same time. Each opens the snapshot file for itself:
\* open(path, 'w+') empties the file and starts at offset 0, json.dump
\* streams the text into the file object, which passes it on to the file at
\* its own offset a buffer at a time, the rest when the file is closed.

\* content_path of both syncs
ConcPath == PathJoiner(linux, today, content_dir.s, RetailName, loc_id)

\* the file text after chunk is written at offset pos (a gap reads as NUL)
WriteAt(text, pos, chunk) ==
    LET end == IF Len(text) > pos + Len(chunk) THEN Len(text) ELSE pos + Len(chunk)
    IN  [i \in 1..end |-> IF i > pos /\ i <= pos + Len(chunk) THEN chunk[i - pos]
                          ELSE IF i <= Len(text) THEN text[i]
                          ELSE "NUL"]

\* the next buffer of writer w
NextChunk(w) ==
    LET rest == Len(writers[w].text) - writers[w].pos
    IN  SubSeq(writers[w].text, writers[w].pos + 1,
               writers[w].pos + (IF rest > BufLen THEN BufLen ELSE rest))

InitConc ==
    /\ variant = "resiliency"
    /\ InitSession
    /\ InitClient
    /\ zip_list = <<>>
    /\ zip_dict = <<>>
    /\ content_dir = PyStr(<<"d">>)
    /\ zip_dir = PyNone
    /\ loc_id = PyInt(1)
    /\ today = 1
    /\ fs \in {NoFiles, OldFiles(linux)}
    /\ pc = "idle"
    /\ sync_zip_dir = PyNone
    /\ zipct_list = <<>>
    /\ count = 0
    /\ last = Result("init", "none")
    /\ calls = NoCalls
    /\ pre = NoPre
    /\ n_query = 0
    /\ ops = 0
    /\ syncs = 0
    /\ writers = NoWriters

ConcFrame ==
    UNCHANGED <<aux, variant, linux, today, session, pc, sync_zip_dir, zipct_list, count,
                last, calls, pre, n_query, ops, syncs>>

\* content_json = json.loads(content_response.content)
ConcFetch(w, doc) ==
    /\ writers[w].pc = "none"
    /\ writers' = [writers EXCEPT ![w] = [pc |-> "fetched", pos |-> 0,
                                          text |-> JsonDump(JsonLoads(WireJson(doc)))]]
    /\ UNCHANGED fs
    /\ ConcFrame

\* open(content_path, 'w+')
ConcOpen(w) ==
    /\ writers[w].pc = "fetched"
    /\ writers' = [writers EXCEPT ![w].pc = "open"]
    /\ fs' = WriteFile(fs, linux, ConcPath, <<>>)
    /\ ConcFrame

\* json.dump(content_json, file): one buffer reaches the file
ConcFlush(w) ==
    /\ writers[w].pc = "open"
    /\ writers[w].pos < Len(writers[w].text)
    /\ fs' = WriteFile(fs, linux, ConcPath,
                       WriteAt(ReadFile(fs, linux, ConcPath), writers[w].pos, NextChunk(w)))
    /\ writers' = [writers EXCEPT ![w].pos = writers[w].pos + Len(NextChunk(w))]
    /\ ConcFrame

\* the end of the with block
ConcClose(w) ==
    /\ writers[w].pc = "open"
    /\ writers[w].pos = Len(writers[w].text)
    /\ writers' = [writers EXCEPT ![w].pc = "done"]
    /\ UNCHANGED fs
    /\ ConcFrame

NextConc ==
    \/ \E w \in 1..2, doc \in Docs : ConcFetch(w, doc)
    \/ \E w \in 1..2 : ConcOpen(w)
    \/ \E w \in 1..2 : ConcFlush(w)
    \/ \E w \in 1..2 : ConcClose(w)

SpecConc == InitConc /\ [][NextConc]_vars

\* ------------------------------------------- construction and credentials
AuthFrame ==
    UNCHANGED <<variant, linux, today, session, fs, pc, sync_zip_dir, zipct_list, count,
                calls, pre, n_query, syncs, writers, zip_list, zip_dict>>

\* AvataxClient(app_name, app_version, machine_name, environment): the new
\* client takes the place of the old one, or ValueError and no new client
NewClient(app_name, app_version, machine_name, a_environment) ==
    /\ ops < MaxOps
    /\ ops' = ops + 1
    /\ AuthFrame
    /\ IF ~(IsStrType(app_name) /\ IsStrType(machine_name) /\ IsStrType(a_environment))
       THEN /\ last' = Result("init", "ValueError")
            /\ UNCHANGED <<environment, base_url, auth, client_header>>
       ELSE /\ last' = Result("init", "none")
            /\ environment' = a_environment
            /\ base_url' = BaseUrl(a_environment)
            /\ auth' = NoAuth
            /\ client_header' = HeaderOf(ClientId(app_name, app_version, machine_name))

\* add_credentials(username, password)
AddCredentials(username, password) ==
    /\ ops < MaxOps
    /\ ops' = ops + 1
    /\ AuthFrame
    /\ UNCHANGED <<environment, base_url>>
    /\ IF ~(IsStrType(username) /\ IsStrType(password))
       THEN /\ last' = Result("add_credentials", "ValueError")
            /\ UNCHANGED <<auth, client_header>>
       ELSE /\ last' = Result("add_credentials", "none")
            /\ IF IsBearerCall(username, password)
               THEN /\ client_header' = HeaderSet(client_header, "Authorization",
                                                  <<"Bearer ">> \o username.s)
                    /\ UNCHANGED auth
               ELSE /\ auth' = [some |-> TRUE, v |-> HTTPBasicAuth(username, password)]
                    /\ UNCHANGED client_header

NameArgs == {PyNone, PyStr(<<"a">>), PyInt(5)}

EnvArgs ==
    {PyNone, PyInt(5), PyStr(<<>>),
     PyStr(Sandbox), PyStr(<<"S", "a", "n", "d", "B", "O", "X">>),
     PyStr(Sandbox \o <<"x">>),
     PyStr(Https \o <<"x">>), PyStr(Http \o <<"x">>),
     PyStr(<<"H", "T", "T", "P", ":", "/", "/", "x">>),
     PyStr(<<"h", "t", "t", "p", ":", "/">>),
     PyStr(<<"p", "r", "o", "d">>)}

UserArgs == {PyNone, PyInt(42), PyStr(<<>>), PyStr(<<"u">>)}

PasswordArgs == {PyNone, PyInt(42), PyStr(<<>>), PyStr(<<"p">>)}

InitAuth == Init /\ variant = "client" /\ linux /\ fs = NoFiles

NextAuth ==
    \/ \E app_name \in NameArgs, machine_name \in NameArgs, a_environment \in EnvArgs :
           NewClient(app_name, PyInt(1), machine_name, a_environment)
    \/ \E username \in UserArgs, password \in PasswordArgs :
           AddCredentials(username, password)

SpecAuth == InitAuth /\ [][NextAuth]_vars

\* ------------------------------------------------------ _zipct_helper alone
\* the fields a row may hold
HelperFields == {<<"1">>, <<"2">>}

\* the rows of up to MaxFields fields
HelperRows == UNION {[1..n -> HelperFields] : n \in 0..MaxFields}

\* the row lists of up to MaxRows rows
HelperLists == UNION {[1..n -> HelperRows] : n \in 0..MaxRows}

\* the rows as z.pop(0) leaves them: popped up to the first empty row
PoppedRows(rows) ==
    [i \in 1..Len(rows) |->
        IF \A j \in 1..i : rows[j] # <<>> THEN Tail(rows[i]) ELSE rows[i]]

InitHelper ==
    /\ variant = "resiliency"
    /\ InitSession
    /\ InitClient
    /\ InitBindings
    /\ linux
    /\ today = 1
    /\ fs = NoFiles
    /\ pc = "idle"
    /\ sync_zip_dir = PyNone
    /\ zipct_list = <<>>
    /\ count = 0
    /\ last = Result("init", "none")
    /\ calls = NoCalls
    /\ pre = NoPre
    /\ n_query = 0
    /\ ops = 0
    /\ syncs = 0
    /\ writers = NoWriters
    /\ zip_list \in HelperLists
    /\ zip_dict = <<>>

\* _zipct_helper(zip_list): the rows lose their first field, the result is
\* kept in zip_dict; an empty row raises IndexError and nothing is returned
ZipctHelperCall ==
    /\ ops < MaxOps
    /\ ops' = ops + 1
    /\ zip_list' = PoppedRows(zip_list)
    /\ IF ZipctHelperFails(zip_list)
       THEN last' = Result("zipct_helper", "IndexError") /\ UNCHANGED zip_dict
       ELSE last' = Result("zipct_helper", "none") /\ zip_dict' = ZipctHelper(zip_list)
    /\ UNCHANGED <<variant, linux, today, session, fs, pc, sync_zip_dir, zipct_list, count,
                   calls, pre, n_query, syncs, writers, environment, base_url, auth,
                   client_header>>

NextHelper == ZipctHelperCall

SpecHelper == InitHelper /\ [][NextHelper]_vars

\* ------------------------------------------------------------ the claims
\* the ZIP-rate snapshot file a sync running today writes under dir
ZipPathToday(dir) == PathJoiner(linux, today, dir, ZipName, PyNone)

\* C1: when no download returns 100 rows, the sync fails with the
\* fetch-failure error on its 10th download: the 10th short response is the
\* last call made to download_tax_rates_by_zip_code.
C1_TenthShortIsLast ==
    [][(pc = "zip_loop" /\ count = MaxCount - 1 /\ calls'.got \in ShortResponses)
           => (pc' = "idle" /\ last' = Result("sync", "Exception"))]_vars

\* C3: while fewer than 10 downloads were made, a download of at least 100
\* rows ends the loop on that pass, every response before it was short, and
\* the sync then succeeds without another download, the ZIP-rate snapshot
\* file holding the table built from the rows of that response alone.
C3_FirstFullResponseWins ==
    [][/\ (pc = "zip_loop" /\ count > 0) => calls.got \in ShortResponses
       /\ (pc = "zip_loop" /\ count < MaxCount /\ calls'.got \in FullResponses)
              => /\ pc' = "zip_write"
                 /\ count' = count + 1
                 /\ zipct_list' = CsvReader(Lines(calls'.got))
       /\ pc = "zip_write"
              => /\ count \in 1..MaxCount
                 /\ calls.got \in FullResponses
                 /\ pc' = "idle"
                 /\ last' = Result("sync", "none")
                 /\ calls'.got = calls.got
                 /\ calls'.wrote_zip
                 /\ ReadFile(fs', linux, ZipPathToday(sync_zip_dir.s))
                        = JsonDumpDict(ZipctHelper(CsvReader(Lines(calls.got))))]_vars

\* a sync has succeeded and written the ZIP-rate table of a full response
C3_Witness ==
    /\ pc = "idle"
    /\ last = Result("sync", "none")
    /\ calls.wrote_zip
    /\ calls.got \in FullResponses
    /\ \E dir \in {<<"d">>} :
           /\ IsFile(fs, linux, ZipPathToday(dir))
           /\ ReadFile(fs, linux, ZipPathToday(dir))
                  = JsonDumpDict(ZipctHelper(CsvReader(Lines(calls.got))))

\* C2: in the resiliency variant, a load with the bound directory and
\* location right after a successful sync that fetched the location's
\* document leaves exactly that document in the content cache.
C2_LoadReadsWhatSyncWrote ==
    [][(/\ variant = "resiliency"
        /\ pc = "idle"
        /\ last = Result("sync", "none")
        /\ calls.fetched
        /\ last'.op = "with_retail"
        /\ content_dir' = content_dir
        /\ loc_id' = loc_id)
           => (last'.err = "none" /\ content_cache' = SomeObj(calls.doc))]_vars

\* C4: on a disk without any file, with_retail_tax_content and
\* with_zipcode_tax_content called with a directory text (and an integer
\* location) raise IndexError, in both variants.
C4_EmptyDirectoryIsNotFound ==
    [][/\ \A a_dir \in DirArgs, a_loc \in LocArgs :
            (fs = NoFiles /\ a_dir.t = "str" /\ a_loc.t = "int"
                 /\ WithRetailTaxContent(a_dir, a_loc))
               => last' = Result("with_retail", "IndexError")
       /\ \A a_dir \in DirArgs :
            (fs = NoFiles /\ a_dir.t = "str" /\ WithZipcodeTaxContent(a_dir))
               => last' = Result("with_zipcode", "IndexError")]_vars

\* C5: a sync called while neither a content directory nor a ZIP-rate
\* directory is configured raises ValueError without a remote call or a file
\* write, and a sync with one of them configured and an acceptable date is
\* not refused.
C5_UnconfiguredSyncIsRejectedFirst ==
    [][/\ (variant = "resiliency" /\ pc = "idle" /\ last'.op = "sync"
                /\ ~Truthy(content_dir) /\ ~Truthy(zip_dir))
              => (last' = Result("sync", "ValueError") /\ calls' = NoCalls /\ fs' = fs)
       /\ \A a \in ClientSyncArgs :
            (a.content_dir = PyNone /\ a.zip_dir = PyNone
                 /\ SyncOfflineContentClient(a.content_dir, a.zip_dir, a.loc_id,
                                             a.company_id, a.date))
               => (last' = Result("sync", "ValueError") /\ calls' = NoCalls /\ fs' = fs)
       /\ \A company_id \in CompanyArgs, date \in DateArgs :
            ((Truthy(content_dir) \/ Truthy(zip_dir)) /\ ~BadDate(date)
                 /\ SyncOfflineContentMixin(company_id, date))
               => last'.err # "ValueError"
       /\ \A a \in ClientSyncArgs :
            (a.content_dir.t # "int" /\ a.zip_dir.t # "int"
                 /\ (Truthy(a.content_dir) \/ Truthy(a.zip_dir)) /\ ~BadDate(a.date)
                 /\ SyncOfflineContentClient(a.content_dir, a.zip_dir, a.loc_id,
                                             a.company_id, a.date))
               => last'.err # "ValueError"]_vars

\* C6 as stated: query_companies is invoked at most once in a session, and
\* a cached default company never changes.
C6_QueriedAtMostOnce ==
    [][n_query' <= 1 /\ (default_comp.some => default_comp' = default_comp)]_vars

\* C6 amended: query_companies is invoked only by a sync that starts while
\* no default company is cached; once one is cached it is never invoked
\* again and the cached company never changes.
C6_NoQueryOnceCached ==
    [][/\ default_comp.some => (default_comp' = default_comp /\ n_query' = n_query)
       /\ n_query' # n_query
              => (pc = "idle" /\ last'.op = "sync" /\ calls'.queried /\ ~default_comp.some)
       /\ (pc = "idle" /\ last'.op = "sync" /\ calls'.queried) => ~default_comp.some]_vars

\* a second sync fetched the content of the cached default company without
\* asking the service again
C6_Witness ==
    /\ pc = "idle"
    /\ last.op = "sync"
    /\ syncs = 2
    /\ n_query = 1
    /\ default_comp.some
    /\ calls.fetched
    /\ ~calls.queried
    /\ calls.company = default_comp.v.id

\* C7: the content step fetches with the company_id argument when one is
\* given, and then does not query the company listing; it fetches with the
\* default company only when none is given.
C7_ExplicitCompanyIsUsed ==
    [][/\ \A company_id \in CompanyArgs, date \in DateArgs :
            SyncOfflineContentMixin(company_id, date)
               => IF company_id.t = "int"
                  THEN ~calls'.queried /\ (calls'.fetched => calls'.company = company_id.n)
                  ELSE calls'.fetched => calls'.company = default_comp'.v.id
       /\ \A a \in ClientSyncArgs :
            SyncOfflineContentClient(a.content_dir, a.zip_dir, a.loc_id, a.company_id, a.date)
               => IF a.company_id.t = "int"
                  THEN ~calls'.queried /\ (calls'.fetched => calls'.company = a.company_id.n)
                  ELSE calls'.fetched => calls'.company = default_comp'.v.id]_vars

\* C8: from the start of a sync to its end, however it ends, the content
\* cache and the ZIP-rate cache are what they were when it began.
C8_SyncLeavesCachesAlone ==
    last.op = "sync"
       => (content_cache = pre.content_cache /\ ziprates_cache = pre.ziprates_cache)

\* a sync wrote a content document other than the cached one, and a ZIP-rate
\* table, and both caches still hold what was loaded before it
C8_Witness ==
    /\ pc = "idle"
    /\ last = Result("sync", "none")
    /\ calls.fetched
    /\ calls.wrote_zip
    /\ fs # pre.fs
    /\ content_cache.some
    /\ content_cache.v # calls.doc
    /\ ziprates_cache.some
    /\ ziprates_cache.v # JsonLoadDict(ReadFile(fs, linux, ZipPathToday(<<"d">>)))

\* C9: once the content step has written, and still when the loop gives up
\* with the fetch-failure error, the content file holds the fetched document
\* and every other file is as it was before the sync.
C9_ContentKeptZipUntouched ==
    (last.op = "sync" /\ calls.fetched /\ calls.content_path # <<>>
         /\ (pc = "zip_loop" \/ last.err = "Exception"))
       => /\ IsFile(fs, linux, calls.content_path)
          /\ ReadFile(fs, linux, calls.content_path) = JsonDump(calls.doc)
          /\ DOMAIN fs = DOMAIN pre.fs \cup {NormPath(linux, calls.content_path)}
          /\ \A p \in DOMAIN pre.fs :
                 p # NormPath(linux, calls.content_path) => fs[p] = pre.fs[p]

\* a sync replaced the content file, then gave up on the ZIP rates, with
\* today's ZIP-rate file of an earlier sync on disk
C9_Witness ==
    /\ pc = "idle"
    /\ last = Result("sync", "Exception")
    /\ calls.fetched
    /\ IsFile(pre.fs, linux, calls.content_path)
    /\ ReadFile(pre.fs, linux, calls.content_path) # ReadFile(fs, linux, calls.content_path)
    /\ IsFile(pre.fs, linux, ZipPathToday(<<"d">>))
    /\ calls.got \in ShortResponses

\* C10: once two syncs running side by side have both closed the content
\* file, it holds exactly the document one of them wrote.
C10_LastWriterWins ==
    (\A w \in 1..2 : writers[w].pc = "done")
       => ReadFile(fs, linux, ConcPath) \in {writers[w].text : w \in 1..2}

\* C11: after a successful add_credentials the client is in exactly one
\* authentication mode: a basic auth object is set or a Bearer Authorization
\* header is set, never both.
C11_ExactlyOneAuthMode ==
    last = Result("add_credentials", "none")
       => (auth.some /\ "Authorization" \notin DOMAIN client_header)
          \/ (~auth.some /\ "Authorization" \in DOMAIN client_header)

\* C12: add_credentials with a text first argument and no second argument
\* sets the Bearer header and nothing else, with a text username and a text
\* password it sets the basic auth object and nothing else, and with any other
\* arguments it raises ValueError and sets nothing.
C12_TwoArgumentShapes ==
    [][\A username \in UserArgs, password \in PasswordArgs :
          AddCredentials(username, password)
             => IF username.t = "str" /\ password = PyNone
                THEN /\ last'.err = "none"
                     /\ client_header' = HeaderSet(client_header, "Authorization",
                                                   <<"Bearer ">> \o username.s)
                     /\ auth' = auth
                ELSE IF username.t = "str" /\ password.t = "str"
                THEN /\ last'.err = "none"
                     /\ auth' = [some |-> TRUE, v |-> HTTPBasicAuth(username, password)]
                     /\ client_header' = client_header
                ELSE /\ last'.err = "ValueError"
                     /\ auth' = auth
                     /\ client_header' = client_header]_vars

\* the environment tag is 'sandbox' written in any letter case
C16_IsSandboxTag(tag) ==
    /\ Len(tag) = Len(Sandbox)
    /\ \A i \in 1..Len(tag) :
           \E k \in 1..26 : LowerCase[k] = Sandbox[i] /\ tag[i] \in {LowerCase[k], Upper[k]}

\* the environment tag begins with the text lead
C16_BeginsWith(tag, lead) ==
    Len(tag) >= Len(lead) /\ \A i \in 1..Len(lead) : tag[i] = lead[i]

\* C16: constructing a client with text-or-absent names and an absent or text
\* environment tag raises nothing and leaves the production endpoint for an
\* absent tag, the sandbox endpoint for 'sandbox' in any letter case, the tag
\* itself when it begins with 'http://' or 'https://', and the production
\* endpoint for every other text.
C16_EndpointOfEnvironment ==
    [][\A app_name \in NameArgs, machine_name \in NameArgs, a_environment \in EnvArgs :
          (NewClient(app_name, PyInt(1), machine_name, a_environment)
               /\ app_name.t # "int" /\ machine_name.t # "int" /\ a_environment.t # "int")
             => /\ last' = Result("init", "none")
                /\ environment' = a_environment
                /\ base_url' =
                       IF a_environment.t = "none" THEN ProductionUrl
                       ELSE IF C16_IsSandboxTag(a_environment.s) THEN SandboxUrl
                       ELSE IF C16_BeginsWith(a_environment.s, Http)
                               \/ C16_BeginsWith(a_environment.s, Https)
                       THEN a_environment.s
                       ELSE ProductionUrl]_vars

\* a client was constructed with 'SandBOX' and has the sandbox endpoint
C16_Witness ==
    /\ last = Result("init", "none")
    /\ environment.t = "str"
    /\ environment.s # Sandbox
    /\ C16_IsSandboxTag(environment.s)
    /\ base_url = SandboxUrl

\* C15: for rows that all have a first field, _zipct_helper returns a
\* mapping with one entry for each first-field value and no other key, each
\* key holding the remaining fields, in order, of the last row that begins
\* with it.
C15_LastRowOfEachCode ==
    [][(ZipctHelperCall /\ \A i \in 1..Len(zip_list) : zip_list[i] # <<>>)
          => /\ last' = Result("zipct_helper", "none")
             /\ {zip_dict'[k][1] : k \in 1..Len(zip_dict')}
                    = {zip_list[i][1] : i \in 1..Len(zip_list)}
             /\ \A k, m \in 1..Len(zip_dict') : zip_dict'[k][1] = zip_dict'[m][1] => k = m
             /\ \A k \in 1..Len(zip_dict') :
                    \E i \in 1..Len(zip_list) :
                        /\ zip_list[i][1] = zip_dict'[k][1]
                        /\ \A j \in (i + 1)..Len(zip_list) : zip_list[j][1] # zip_list[i][1]
                        /\ zip_dict'[k][2] = SubSeq(zip_list[i], 2, Len(zip_list[i]))]_vars

\* two rows with the same code and different remaining fields went in, and
\* the one entry that came out holds the remaining fields of the second
C15_Witness ==
    /\ last = Result("zipct_helper", "none")
    /\ ops = 1
    /\ Len(zip_list) = 2
    /\ zip_list[1] # zip_list[2]
    /\ Len(zip_dict) = 1
    /\ zip_dict[1][2] = zip_list[2]

\* C13: the content file a sync of client.py writes for an integer location
\* id is named '<id>_retailTaxContent.json', for every id including 0, and
\* the ZIP-rate file, written without an id, is named
\* '<today>_zipRates.json'.
C13_EntityIdNamesTheFile ==
    [][/\ \A a \in ClientSyncArgs :
            (SyncOfflineContentClient(a.content_dir, a.zip_dir, a.loc_id, a.company_id, a.date)
                 /\ a.loc_id.t = "int" /\ calls'.content_path # <<>>)
               => BaseName(linux, NormPath(linux, calls'.content_path))
                      = Str(a.loc_id.n) \o <<"_">> \o RetailName
       /\ (pc = "zip_write" /\ calls'.wrote_zip)
              => IsFile(fs', linux,
                        sync_zip_dir.s \o <<Sep(linux)>> \o TodayTag(today) \o <<"_">> \o ZipName)]_vars

\* the date tag of a directory entry: the second-to-last piece of its name
\* cut at underscores
C14_TagText(f) ==
    LET pieces == SplitOn(BaseName(linux, f), "_")
    IN  IF Len(pieces) < 2 THEN <<>> ELSE pieces[Len(pieces) - 1]

\* C14: with_zipcode_tax_content on a directory whose ZIP-rate entries all
\* carry an integer date tag resolves, in whatever order they are listed, an
\* entry with the largest tag, and loads that entry.
C14_ResolvesLargestTag ==
    [][\A a_dir \in DirArgs :
          (/\ WithZipcodeTaxContent(a_dir)
           /\ a_dir.t = "str"
           /\ GlobZip(fs, linux, a_dir.s) # {}
           /\ \A f \in GlobZip(fs, linux, a_dir.s) : IsIntText(C14_TagText(f)))
             => /\ last'.err = "none"
                /\ \E f \in GlobZip(fs, linux, a_dir.s) :
                       /\ \A g \in GlobZip(fs, linux, a_dir.s) :
                              IntOf(C14_TagText(g)) <= IntOf(C14_TagText(f))
                       /\ ziprates_cache' = SomeObj(JsonLoadDict(ReadFile(fs, linux, f)))]_vars

\* C17: every ZIP-rate file a sync has created or changed holds the table
\* built from the one response the loop ended on, and that response has at
\* least 100 rows.
C17_OnlyFullTablesPersisted ==
    last.op = "sync"
       => \A p \in DOMAIN fs :
              (p[Len(p)] = ZipName[1] /\ (p \notin DOMAIN pre.fs \/ pre.fs[p] # fs[p]))
                 => /\ calls.wrote_zip
                    /\ Len(CsvReader(Lines(calls.got))) >= MinRows
                    /\ fs[p] = JsonDumpDict(ZipctHelper(CsvReader(Lines(calls.got))))

\* a sync of the resiliency variant that had only a ZIP-rate directory bound
\* has created a ZIP-rate file
C17_Witness ==
    /\ variant = "resiliency"
    /\ pc = "idle"
    /\ last = Result("sync", "none")
    /\ ~calls.fetched
    /\ calls.wrote_zip
    /\ \E p \in DOMAIN fs : p[Len(p)] = ZipName[1] /\ p \notin DOMAIN pre.fs

\* C18: in the resiliency variant, after a with_retail_tax_content call that
\* returned normally, a non-empty content cache holds the document of the
\* file of the bound directory and location.
C18_CacheIsOfBoundLocation ==
    (variant = "resiliency" /\ last = Result("with_retail", "none") /\ content_cache.some)
       => /\ IsFile(fs, linux, RetailLocFile(content_dir.s, loc_id.n))
          /\ content_cache.v
                 = JsonLoads(ReadFile(fs, linux, RetailLocFile(content_dir.s, loc_id.n)))

\* C19: in the resiliency variant, a sync that returned normally has written
\* the content file or the ZIP-rate file.
C19_NormalReturnHasWritten ==
    (variant = "resiliency" /\ pc = "idle" /\ last = Result("sync", "none"))
       => (calls.content_path # <<>> \/ calls.wrote_zip)

\* C20: a download of the loop that returns at least 100 rows ends the loop,
\* on whichever pass it arrives, and the sync goes on to write that table.
C20_FullResponseNeverDiscarded ==
    [][(pc = "zip_loop" /\ calls'.got \in FullResponses)
          => (pc' = "zip_write" /\ zipct_list' = CsvReader(Lines(calls'.got)))]_vars

\* C21: in the resiliency variant, with_zipcode_tax_content called with the
\* bound ZIP-rate directory right after a sync that returned normally and
\* wrote its ZIP-rate snapshot returns normally and leaves in the ZIP-rate
\* cache the mapping _zipct_helper builds from the response the sync
\* accepted, whatever older snapshots the directory holds.
C21_LoadsWhatLatestSyncWrote ==
    [][\A a_dir \in DirArgs :
          (/\ variant = "resiliency"
           /\ pc = "idle"
           /\ last = Result("sync", "none")
           /\ calls.wrote_zip
           /\ a_dir = zip_dir
           /\ WithZipcodeTaxContent(a_dir))
             => /\ last'.err = "none"
                /\ ziprates_cache'
                       = SomeObj(ZipctHelper(CsvReader(Lines(calls.got))))]_vars

====
